---- MODULE Spec2Model ----
(***************************************************************************)
(* A model of the render/interaction driver www/index.js of                *)
(* wasm-game-of-life: the play/pause scheduler, the bit-grid decoder, the  *)
(* pointer-to-cell mapping, the click/key router and the binary import and *)
(* export of the grid.  The automaton engine (the wasm module) and the     *)
(* host (frames, clock, files) are collaborators; their parts are marked.  *)
(***************************************************************************)
EXTENDS Integers, Sequences, FiniteSets, TLC

(* ------------------------------------------------------------------ *)
(* Bounds of the model                                                  *)
(* ------------------------------------------------------------------ *)
\* universe.width() and universe.height() of the engine instance
Width == 3
Height == 2
\* largest value of the steps-per-frame control
MaxTicks == 2
\* longest file offered to the load control
MaxFileLen == 2
\* file reads in flight at once
MaxReads == 1
\* scratch regions the engine heap can hold
MaxRegions == 1
\* object URLs awaiting their revoke timer
MaxUrls == 1

(* ------------------------------------------------------------------ *)
(* Program constants                                                    *)
(* ------------------------------------------------------------------ *)
CELL_SIZE == 5
\* animationId === null
Null == 0
\* the frame-rate window of renderLoop, in ms
Window == 1000
\* parseInt(..., 10)
Radix == 10

PLAY_GLYPH == "play"
PAUSE_GLYPH == "pause"

(* ------------------------------------------------------------------ *)
(* Arithmetic helpers                                                   *)
(* ------------------------------------------------------------------ *)
\* the element of a singleton.  {F(x) : x \in {e}} binds x to the value of
\* e, so that F reads a value and e is evaluated once
Once(S) == CHOOSE r \in S : TRUE

Min(a, b) == IF a < b THEN a ELSE b

\* Math.ceil(n / 8) for n >= 0
CeilDiv8(n) == (n + 7) \div 8

\* JavaScript's a & b on non-negative integers
RECURSIVE BitAnd(_, _)
BitAnd(a, b) ==
  IF a = 0 \/ b = 0 THEN 0
  ELSE (a % 2) * (b % 2) + 2 * BitAnd(a \div 2, b \div 2)

\* JavaScript's 1 << k for 0 <= k < 31
Shl1(k) == 2 ^ k

\* the decimal digits of n >= 0, most significant first: the text of a
\* range input's value
RECURSIVE Digits(_)
Digits(n) == IF n < Radix THEN <<n>> ELSE Append(Digits(n \div Radix), n % Radix)

\* parseInt(text, 10) of a digit string
RECURSIVE ParseIntFrom(_, _)
ParseIntFrom(text, acc) ==
  IF text = <<>> THEN acc
  ELSE ParseIntFrom(Tail(text), acc * Radix + Head(text))

ParseInt(text) == ParseIntFrom(text, 0)

(* ------------------------------------------------------------------ *)
(* The grid codec of the driver                                         *)
(* ------------------------------------------------------------------ *)
\* the length of the packed grid the driver reads (drawCells, save)
ByteLen == CeilDiv8(Width * Height)

getIndex(row, column) == row * Width + column

\* a decoder that looks for every bit in the first byte
bitIsSetFirstByte(n, arr) ==
  LET mask == Shl1(n % 8)
  IN  BitAnd(arr[1], mask) = mask

\* arr is a Uint8Array, here a sequence indexed from 1; an index past its
\* end reads undefined, and undefined & mask is 0
bitIsSet(n, arr) ==
  LET byte == n \div 8
      mask == Shl1(n % 8)
  IN  IF byte + 1 \in DOMAIN arr
      THEN BitAnd(arr[byte + 1], mask) = mask
      ELSE 0 = mask

(* ------------------------------------------------------------------ *)
(* The engine: a packed grid, one bit per cell, row-major, bit i%8 of   *)
(* byte floor(i/8)                                                      *)
(* ------------------------------------------------------------------ *)
NumCells == Width * Height

CellIndices == 0 .. (NumCells - 1)

\* bit i of a packed byte sequence, as 0 or 1
CellBit(bytes, i) == (bytes[(i \div 8) + 1] \div (2 ^ (i % 8))) % 2

\* the n bytes whose bit i is F[i]
Pack(F, n) ==
  [k \in 1 .. n |->
     LET b == 8 * (k - 1)
     IN  F[b] + 2 * F[b + 1] + 4 * F[b + 2] + 8 * F[b + 3]
         + 16 * F[b + 4] + 32 * F[b + 5] + 64 * F[b + 6] + 128 * F[b + 7]]

ZeroBytes(n) == [k \in 1 .. n |-> 0]

\* the index of the cell at (row, col), wrapping on the torus
WrapIndex(row, col) == (row % Height) * Width + (col % Width)

LiveNeighbours(bytes, row, col) ==
  LET N(dr, dc) == CellBit(bytes, WrapIndex(row + dr, col + dc))
  IN  N(Height - 1, Width - 1) + N(Height - 1, 0) + N(Height - 1, 1)
      + N(0, Width - 1) + N(0, 1)
      + N(1, Width - 1) + N(1, 0) + N(1, 1)

NextCell(bytes, i) ==
  LET n == LiveNeighbours(bytes, i \div Width, i % Width)
      alive == CellBit(bytes, i) = 1
  IN  IF alive /\ (n = 2 \/ n = 3) THEN 1
      ELSE IF ~alive /\ n = 3 THEN 1
      ELSE 0

\* one generation; bits past the last cell are left as they are
Tick(bytes) ==
  Pack([i \in 0 .. (8 * Len(bytes) - 1) |->
          IF i < NumCells THEN NextCell(bytes, i) ELSE CellBit(bytes, i)],
       Len(bytes))

RECURSIVE TickMany(_, _)
TickMany(bytes, n) ==
  IF n <= 0 THEN bytes
  ELSE Once({TickMany(next, n - 1) : next \in {Tick(bytes)}})

ToggleCell(bytes, row, col) ==
  Pack([i \in 0 .. (8 * Len(bytes) - 1) |->
          IF i = getIndex(row, col) THEN 1 - CellBit(bytes, i) ELSE CellBit(bytes, i)],
       Len(bytes))

\* the cells of a pattern given as offsets, anchored at (row, col)
Stamp(bytes, row, col, shape) ==
  LET on == {WrapIndex(row + Height * 8 + d[1], col + Width * 8 + d[2]) : d \in shape}
  IN  Pack([i \in 0 .. (8 * Len(bytes) - 1) |->
              IF i \in on THEN 1 ELSE CellBit(bytes, i)],
           Len(bytes))

GliderShape == {<<0, 1>>, <<1, 2>>, <<2, 0>>, <<2, 1>>, <<2, 2>>}

PulsarArm == {-6, -1, 1, 6}

PulsarBar == {-4, -3, -2, 2, 3, 4}

PulsarShape ==
  {<<a, b>> : a \in PulsarArm, b \in PulsarBar}
  \cup {<<b, a>> : a \in PulsarArm, b \in PulsarBar}

AddGlider(bytes, row, col) == Stamp(bytes, row, col, GliderShape)

AddPulsar(bytes, row, col) == Stamp(bytes, row, col, PulsarShape)

\* the grids the engine can seed itself with (Universe.new, randomise)
Seeds ==
  { Pack([i \in 0 .. (8 * ByteLen - 1) |-> IF i < NumCells /\ (i % 2 = 0 \/ i % 7 = 0) THEN 1 ELSE 0], ByteLen),
    Pack([i \in 0 .. (8 * ByteLen - 1) |-> IF i < NumCells /\ i % 3 = 1 THEN 1 ELSE 0], ByteLen) }


\* set_state(ptr, len) of a region holding data: the grid's bytes are taken
\* positionally from data; bytes the data does not reach are undefined (fill)
Adopt(data, fill) ==
  [k \in 1 .. ByteLen |-> IF k <= Len(data) THEN data[k] ELSE fill]

\* what an undefined byte may hold
FillBytes == {0, 255}

(* ------------------------------------------------------------------ *)
(* The host's inputs                                                    *)
(* ------------------------------------------------------------------ *)
CanvasWidth == (CELL_SIZE + 1) * Width + 1

CanvasHeight == (CELL_SIZE + 1) * Height + 1

\* display sizes of the canvas, as multiples of its buffer size
MaxZoom == 1

Rects ==
  {[left |-> 8, top |-> 8, width |-> k * CanvasWidth, height |-> k * CanvasHeight] :
     k \in 1 .. MaxZoom}

\* a user's clicks land on the canvas: here its first and its last pixel
FirstPixel(rect) == [clientX |-> rect.left, clientY |-> rect.top]

LastPixel(rect) ==
  [clientX |-> rect.left + rect.width - 1, clientY |-> rect.top + rect.height - 1]

UserClicks(rect) == {FirstPixel(rect), LastPixel(rect)}

\* the time between two reads of the clock by renderLoop, in ms
SlowFrame == 1500

Dts == {SlowFrame}

Keys == {" ", "a"}

ByteVals == {0, 255}

\* the files a user can offer to the load control: every length up to
\* MaxFileLen, each byte the same
Files == {[k \in 1 .. n |-> v] : n \in 0 .. MaxFileLen, v \in ByteVals}

\* those of the length the engine expects
ExactFiles == {file \in Files : Len(file) = ByteLen}

(* ------------------------------------------------------------------ *)
(* State                                                                *)
(* ------------------------------------------------------------------ *)
VARIABLES
  cells,        \* engine: the packed grid
  initial,      \* engine: the retained initial configuration
  heap,         \* engine: the scratch regions allocated, [ptr, bytes]
  animationId,  \* the handle of the frame request, or Null
  pending,      \* host: the frame requests not yet delivered or cancelled
  buttonText,   \* playPauseButton.textContent
  ticksValue,   \* ticksSlider.value, a digit string
  ticksReadout, \* ticksReadout.textContent
  frames,       \* the frame counter of the frame-rate sample
  elapsed,      \* Date.now() - time at renderLoop's last read of the clock
  fps,          \* fpsEl.innerText
  shown,        \* canvas: the cells painted in the alive colour
  download,     \* host: the last file offered for download
  urls,         \* host: object URLs whose revoke timer is pending
  reading,      \* host: file reads in flight
  handler,      \* the handler that ran last
  calls,        \* the engine and host calls it made, in order
  snapshot,     \* history: the engine's grid when save last ran, and
  clean,        \*   whether no engine call changed the grid since
  roundTrip,    \* history: the last handler imported that very export
  keys,         \* history: the modifier keys of the last handler's event
  afterPause,   \* history: pause() ran and play() has not run since
  playedFrom,   \* history: the grid before a play() that only a pause() followed
  stepsAtPlay,  \* history: the step count when play() last ran, 0 once paused
  epoch,        \* history: engine calls the running handler has made so far
  stale,        \* history: a view of engine memory was used after a later engine call
  probe         \* the input and output of a pure function under test

vars ==
  <<cells, initial, heap, animationId, pending, buttonText, ticksValue,
    ticksReadout, frames, elapsed, fps, shown, download, urls, reading,
    handler, calls, snapshot, clean, roundTrip, keys, afterPause,
    playedFrom, stepsAtPlay, epoch, stale, probe>>

State ==
  [cells |-> cells, initial |-> initial, heap |-> heap,
   animationId |-> animationId, pending |-> pending, buttonText |-> buttonText,
   ticksValue |-> ticksValue, ticksReadout |-> ticksReadout, frames |-> frames,
   elapsed |-> elapsed, fps |-> fps, shown |-> shown, download |-> download,
   urls |-> urls, reading |-> reading, handler |-> handler, calls |-> calls,
   snapshot |-> snapshot, clean |-> clean, roundTrip |-> roundTrip,
   keys |-> keys, afterPause |-> afterPause, playedFrom |-> playedFrom,
   stepsAtPlay |-> stepsAtPlay, epoch |-> epoch, stale |-> stale,
   probe |-> probe]

Commit(next) ==
  \E s \in {next} :
  /\ cells' = s.cells
  /\ initial' = s.initial
  /\ heap' = s.heap
  /\ animationId' = s.animationId
  /\ pending' = s.pending
  /\ buttonText' = s.buttonText
  /\ ticksValue' = s.ticksValue
  /\ ticksReadout' = s.ticksReadout
  /\ frames' = s.frames
  /\ elapsed' = s.elapsed
  /\ fps' = s.fps
  /\ shown' = s.shown
  /\ download' = s.download
  /\ urls' = s.urls
  /\ reading' = s.reading
  /\ handler' = s.handler
  /\ calls' = s.calls
  /\ snapshot' = s.snapshot
  /\ clean' = s.clean
  /\ roundTrip' = s.roundTrip
  /\ keys' = s.keys
  /\ afterPause' = s.afterPause
  /\ playedFrom' = s.playedFrom
  /\ stepsAtPlay' = s.stepsAtPlay
  /\ epoch' = s.epoch
  /\ stale' = s.stale
  /\ probe' = s.probe

\* one entry of calls
Call(op, a, b) == [op |-> op, a |-> a, b |-> b]

\* the calls that enter the engine: each may grow or move its memory
EngineOps ==
  {"tick_many", "toggle_cell", "add_glider", "add_pulsar", "randomise", "clear",
   "malloc", "set_state", "free"}

Log(s, op, a, b) ==
  [s EXCEPT !.calls = Append(@, Call(op, a, b)),
            !.epoch = IF op \in EngineOps THEN @ + 1 ELSE @]

NoKeys == [ctrlKey |-> FALSE, metaKey |-> FALSE, shiftKey |-> FALSE]

\* a handler starts with an empty record of calls.  playedFrom is kept only
\* for the play/pause click that directly follows the click that played
BeginWith(s, name, held) ==
  [s EXCEPT !.handler = name, !.calls = <<>>, !.roundTrip = FALSE,
            !.keys = held, !.epoch = 0,
            !.playedFrom =
              IF name = "playPause" /\ s.handler = "playPause"
                 /\ s.animationId # Null
              THEN @ ELSE <<>>]

Begin(s, name) == BeginWith(s, name, NoKeys)

\* an engine call that sets the grid
SetGrid(s, bytes) == [s EXCEPT !.cells = bytes, !.clean = FALSE]

\* an engine call that seeds the grid: the initial configuration follows
SeedGrid(s, bytes) == [s EXCEPT !.cells = bytes, !.initial = bytes, !.clean = FALSE]

\* memory.buffer: the engine's linear memory, the grid and the initial
\* configuration behind the bytes that precede them
Header == <<170>>

Memory(s) == Header \o s.cells \o s.initial

\* universe.cells() and universe.initial_cells(): addresses in memory
CellsPtr(s) == Len(Header)

InitialCellsPtr(s) == Len(Header) + Len(s.cells)

\* new Uint8Array(buffer, byteOffset, length): the bytes are read through
\* the view when they are used
View(buffer, byteOffset, length) == SubSeq(buffer, byteOffset + 1, byteOffset + length)

\* universe.cells() and universe.initial_cells() enter the engine too
pointerCall(s) == [s EXCEPT !.epoch = @ + 1]

\* a view is of the memory as the engine's last call left it: it is marked
\* with the number of engine calls made when it was created
ViewMark(s) == s.epoch

\* a read or write through a view created at mark
UseView(s, mark) == [s EXCEPT !.stale = @ \/ mark # s.epoch]

(* ------------------------------------------------------------------ *)
(* Drawing                                                              *)
(* ------------------------------------------------------------------ *)
drawCells(s) ==
  LET asked == pointerCall(s)
      cellsPtr == CellsPtr(asked)
      view == View(Memory(asked), cellsPtr, CeilDiv8(Width * Height))
      mark == ViewMark(asked)
  IN  [UseView(asked, mark) EXCEPT !.shown =
         {<<row, col>> \in (0 .. (Height - 1)) \X (0 .. (Width - 1)) :
            bitIsSet(getIndex(row, col), view)}]

draw(entry) == Once({drawCells(Log(s, "draw", 0, 0)) : s \in {entry}})

(* ------------------------------------------------------------------ *)
(* The animation scheduler                                              *)
(* ------------------------------------------------------------------ *)
\* a renderOne that uses, while playing, the step count read when play() ran
renderOneCaptured(s) ==
  LET n == IF s.stepsAtPlay # 0 THEN s.stepsAtPlay ELSE ParseInt(s.ticksValue)
  IN  draw(SetGrid(Log(s, "tick_many", n, 0), TickMany(s.cells, n)))

renderOne(entry) ==
  Once({LET n == ParseInt(s.ticksValue)
        IN  draw(SetGrid(Log(s, "tick_many", n, 0), TickMany(s.cells, n))) :
        s \in {entry}})

\* requestAnimationFrame: a handle no pending request has
FreshHandle(s) ==
  CHOOSE id \in 1 .. (Cardinality(s.pending) + 2) :
    /\ id \notin s.pending \cup {s.animationId}
    /\ \A j \in 1 .. (id - 1) : j \in s.pending \cup {s.animationId}

requestAnimationFrame(entry) ==
  Once({LET id == FreshHandle(s)
        IN  [Log(s, "requestAnimationFrame", id, 0) EXCEPT
               !.pending = @ \cup {id}, !.animationId = id] :
        s \in {entry}})

\* a render loop that requests the next frame before it advances and draws
renderLoopRequestsFirst(s, dt) ==
  LET sinceTime == s.elapsed + dt
      read == Log(s, "Date.now", sinceTime, 0)
      sampled ==
        IF sinceTime > Window
        THEN [Log(Log(read, "innerText", s.frames, 0), "Date.now", sinceTime, 0)
                EXCEPT !.fps = s.frames, !.frames = 0, !.elapsed = 0]
        ELSE [read EXCEPT !.frames = @ + 1, !.elapsed = sinceTime]
  IN  renderOne(requestAnimationFrame(sampled))

\* a render loop that requests no next frame after a frame that closed the
\* frame-rate window
renderLoopStopsAtWindow(s, dt) ==
  LET sinceTime == s.elapsed + dt
      read == Log(s, "Date.now", sinceTime, 0)
  IN  IF sinceTime > Window
      THEN renderOne([Log(Log(read, "innerText", s.frames, 0), "Date.now", sinceTime, 0)
                        EXCEPT !.fps = s.frames, !.frames = 0, !.elapsed = 0])
      ELSE requestAnimationFrame(
             renderOne([read EXCEPT !.frames = @ + 1, !.elapsed = sinceTime]))

\* dt: the time since renderLoop last read the clock
renderLoop(s, dt) ==
  LET sinceTime == s.elapsed + dt
      read == Log(s, "Date.now", sinceTime, 0)
      sampled ==
        IF sinceTime > Window
        THEN [Log(Log(read, "innerText", s.frames, 0), "Date.now", sinceTime, 0)
                EXCEPT !.fps = s.frames, !.frames = 0, !.elapsed = 0]
        ELSE [read EXCEPT !.frames = @ + 1, !.elapsed = sinceTime]
  IN  requestAnimationFrame(renderOne(sampled))

isPaused(s) == s.animationId = Null

\* a play() that requests a frame and renders nothing itself
playOnlySchedules(s, dt) ==
  requestAnimationFrame([s EXCEPT !.buttonText = PAUSE_GLYPH,
                                  !.afterPause = FALSE, !.playedFrom = s.cells])

play(s, dt) ==
  renderLoop([s EXCEPT !.buttonText = PAUSE_GLYPH,
                       !.afterPause = FALSE, !.playedFrom = s.cells,
                       !.stepsAtPlay = ParseInt(s.ticksValue)], dt)

\* a pause() that forgets the handle and leaves the request with the host
pauseWithoutCancel(s) ==
  [s EXCEPT !.buttonText = PLAY_GLYPH, !.animationId = Null, !.afterPause = TRUE]

\* a pause() that cancels the request and keeps its handle
pauseKeepsHandle(s) ==
  [Log(s, "cancelAnimationFrame", s.animationId, 0) EXCEPT
     !.buttonText = PLAY_GLYPH,
     !.pending = @ \ {s.animationId},
     !.afterPause = TRUE]

pause(s) ==
  [Log(s, "cancelAnimationFrame", s.animationId, 0) EXCEPT
     !.buttonText = PLAY_GLYPH,
     !.pending = @ \ {s.animationId},
     !.animationId = Null,
     !.afterPause = TRUE,
     !.stepsAtPlay = 0]

\* a click handler that plays whatever the playback state
playPauseClickAlwaysPlays(s, shiftKey, dt) ==
  IF shiftKey /\ isPaused(s) THEN renderOne(s) ELSE play(s, dt)

\* a click handler that tests the modifier before the playback state
playPauseClickShiftFirst(s, shiftKey, dt) ==
  IF shiftKey
  THEN renderOne(s)
  ELSE IF isPaused(s) THEN play(s, dt) ELSE pause(s)

playPauseClick(s, shiftKey, dt) ==
  IF isPaused(s)
  THEN IF shiftKey THEN renderOne(s) ELSE play(s, dt)
  ELSE pause(s)


(* ------------------------------------------------------------------ *)
(* The interaction router                                               *)
(* ------------------------------------------------------------------ *)
\* a mapping that divides by the cell size without the 1px border
cellOfNoGap(offset, display, buffer, limit) ==
  Min((offset * buffer) \div (display * CELL_SIZE), limit - 1)

\* offset: event.client - boundingRect.low; display: boundingRect's size;
\* buffer: the canvas's size; limit: height or width.  The scale
\* buffer / display is kept exact: floor(offset * scale / (CELL_SIZE + 1))
cellOf(offset, display, buffer, limit) ==
  Min((offset * buffer) \div (display * (CELL_SIZE + 1)), limit - 1)

clickRow(event, rect) ==
  cellOf(event.clientY - rect.top, rect.height, CanvasHeight, Height)

clickCol(event, rect) ==
  cellOf(event.clientX - rect.left, rect.width, CanvasWidth, Width)

\* a router that tests the single modifier before the combined one
canvasClickGliderFirst(s, event, rect) ==
  LET row == clickRow(event, rect)
      col == clickCol(event, rect)
      stamped ==
        IF event.ctrlKey \/ event.metaKey
        THEN SetGrid(Log(s, "add_glider", row, col), AddGlider(s.cells, row, col))
        ELSE IF (event.ctrlKey \/ event.metaKey) /\ event.shiftKey
        THEN SetGrid(Log(s, "add_pulsar", row, col), AddPulsar(s.cells, row, col))
        ELSE SetGrid(Log(s, "toggle_cell", row, col), ToggleCell(s.cells, row, col))
  IN  draw(stamped)

canvasClick(s, event, rect) ==
  LET row == clickRow(event, rect)
      col == clickCol(event, rect)
      stamped ==
        IF (event.ctrlKey \/ event.metaKey) /\ event.shiftKey
        THEN SetGrid(Log(s, "add_pulsar", row, col), AddPulsar(s.cells, row, col))
        ELSE IF event.ctrlKey \/ event.metaKey
        THEN SetGrid(Log(s, "add_glider", row, col), AddGlider(s.cells, row, col))
        ELSE SetGrid(Log(s, "toggle_cell", row, col), ToggleCell(s.cells, row, col))
  IN  draw(stamped)

\* a randomise that stops playback
randomiseAndPause(s, seed) == pause(draw(SeedGrid(Log(s, "randomise", 0, 0), seed)))

\* seed: the grid the engine's random source yields
randomise(s, seed) == draw(SeedGrid(Log(s, "randomise", 0, 0), seed))

keydown(s, key, seed) ==
  IF key = " "
  THEN randomise(Log(s, "preventDefault", 0, 0), seed)
  ELSE s

\* a clear handler that does not redraw
clearWithoutDraw(s) == SeedGrid(Log(s, "clear", 0, 0), ZeroBytes(ByteLen))

clearClick(s) == draw(SeedGrid(Log(s, "clear", 0, 0), ZeroBytes(ByteLen)))

ticksInput(s, value) == [s EXCEPT !.ticksValue = value, !.ticksReadout = value]

(* ------------------------------------------------------------------ *)
(* The state transfer protocol                                          *)
(* ------------------------------------------------------------------ *)
\* a download holds bytes of its own (alias FALSE); one that shared the
\* engine's memory would hold what is at source now
NoDownload == [has |-> FALSE, source |-> 0, bytes |-> <<>>, alias |-> FALSE]

\* ArrayBuffer.slice(begin, end): a copy of the bytes begin .. end - 1
Slice(bytes, begin, end) == SubSeq(bytes, begin + 1, end)

FreshUrl(s) ==
  CHOOSE u \in 1 .. (Cardinality(s.urls) + 1) :
    u \notin s.urls /\ \A j \in 1 .. (u - 1) : j \in s.urls

\* history: the engine's own bytes of the region at ptr
EngineBytesAt(s, ptr) == IF ptr = CellsPtr(s) THEN s.cells ELSE s.initial

\* a save() that passes the length as the end of the slice
saveLengthAsEnd(s, cellsPtr) ==
  LET byteOffset == cellsPtr
      byteLength == CeilDiv8(Width * Height)
      buffer == Slice(Memory(s), byteOffset, byteLength)
      url == FreshUrl(s)
  IN  [Log(Log(s, "createObjectURL", url, 0), "download", url, 0) EXCEPT
         !.download = [has |-> TRUE, source |-> cellsPtr, bytes |-> buffer,
                       alias |-> FALSE],
         !.urls = @ \cup {url},
         !.snapshot = EngineBytesAt(s, cellsPtr),
         !.clean = (cellsPtr = CellsPtr(s))]

\* a save() that offers the view of the engine's memory, not a copy
saveShared(s, cellsPtr) ==
  LET byteLength == CeilDiv8(Width * Height)
      url == FreshUrl(s)
  IN  [Log(Log(s, "createObjectURL", url, 0), "download", url, 0) EXCEPT
         !.download = [has |-> TRUE, source |-> cellsPtr,
                       bytes |-> View(Memory(s), cellsPtr, byteLength),
                       alias |-> TRUE],
         !.urls = @ \cup {url},
         !.snapshot = EngineBytesAt(s, cellsPtr),
         !.clean = (cellsPtr = CellsPtr(s))]

\* cellsPtr: what universe.cells() or universe.initial_cells() returned
save(s, cellsPtr) ==
  LET byteOffset == cellsPtr
      byteLength == CeilDiv8(Width * Height)
      mark == ViewMark(s)
      buffer == Slice(Memory(s), byteOffset, byteLength + byteOffset)
      sliced == UseView(s, mark)
      url == FreshUrl(s)
  IN  [Log(Log(sliced, "createObjectURL", url, 0), "download", url, 0) EXCEPT
         !.download = [has |-> TRUE, source |-> cellsPtr, bytes |-> buffer,
                       alias |-> FALSE],
         !.urls = @ \cup {url},
         !.snapshot = EngineBytesAt(s, cellsPtr),
         !.clean = (cellsPtr = CellsPtr(s))]

\* the listeners ask the engine for the pointer and pass it to save
saveCurrentClick(s) == save(pointerCall(s), CellsPtr(s))

saveInitialClick(s) == save(pointerCall(s), InitialCellsPtr(s))

revokeTimer(s, url) == [Log(s, "revokeObjectURL", url, 0) EXCEPT !.urls = @ \ {url}]

\* what the user's download holds now
Exported(s) ==
  IF s.download.alias
  THEN View(Memory(s), s.download.source, Len(s.download.bytes))
  ELSE s.download.bytes

loadChange(s, file) ==
  [Log(s, "readAsArrayBuffer", Len(file), 0) EXCEPT !.reading = @ \cup {file}]

FreshPtr(s) ==
  LET used == {r.ptr : r \in s.heap}
  IN  CHOOSE p \in 1 .. (Cardinality(used) + 1) :
        p \notin used /\ \A j \in 1 .. (p - 1) : j \in used

\* __wbindgen_malloc(n): a region of n undefined bytes
malloc(s, n, fill) ==
  LET ptr == FreshPtr(s)
  IN  [Log(s, "malloc", n, ptr) EXCEPT
         !.heap = @ \cup {[ptr |-> ptr, bytes |-> [k \in 1 .. n |-> fill]]}]

\* buffer.set(data, ptr), buffer a view of all of memory
bufferSet(s, data, ptr) ==
  [Log(s, "set", ptr, data) EXCEPT
     !.heap = {IF r.ptr = ptr
               THEN [r EXCEPT !.bytes =
                       [k \in 1 .. Len(r.bytes) |->
                          IF k <= Len(data) THEN data[k] ELSE r.bytes[k]]]
               ELSE r : r \in @}]

RegionBytes(s, ptr) == (CHOOSE r \in s.heap : r.ptr = ptr).bytes

\* universe.set_state(ptr, len) that returns
setState(s, ptr, len, fill) ==
  SetGrid(s, Adopt(SubSeq(RegionBytes(s, ptr), 1, len), fill))

\* __wbindgen_free(ptr, len)
free(s, ptr, len) ==
  [Log(s, "free", ptr, len) EXCEPT
     !.heap = {r \in @ : ~(r.ptr = ptr /\ Len(r.bytes) = len)}]

\* a loadend handler that takes its view of memory before it allocates
loadEndViewFirst(s, data, trap, fill) ==
  LET ptr == FreshPtr(s)
      mark == ViewMark(s)
      allocated == malloc(s, Len(data), fill)
      copied == bufferSet(UseView(allocated, mark), data, ptr)
      asked == Log(copied, "set_state", ptr, Len(data))
  IN  IF trap
      THEN asked
      ELSE draw(free(setState(asked, ptr, Len(data), fill), ptr, Len(data)))

\* trap: the engine's set_state fails and the handler ends there
loadEnd(s, data, trap, fill) ==
  LET ptr == FreshPtr(s)
      allocated == malloc(s, Len(data), fill)
      mark == ViewMark(allocated)
      copied == bufferSet(UseView(allocated, mark), data, ptr)
      asked == Log(copied, "set_state", ptr, Len(data))
      exact == s.clean /\ s.download.has /\ s.download.source = CellsPtr(s)
               /\ data = Exported(s)
  IN  IF trap
      THEN asked
      ELSE [draw(free(setState(asked, ptr, Len(data), fill), ptr, Len(data)))
              EXCEPT !.roundTrip = exact]

(* ------------------------------------------------------------------ *)
(* Startup                                                              *)
(* ------------------------------------------------------------------ *)
\* the state the module's top level builds before its last two statements
Boot(seed, value) ==
  [cells |-> seed, initial |-> seed, heap |-> {},
   animationId |-> Null, pending |-> {}, buttonText |-> PLAY_GLYPH,
   ticksValue |-> value, ticksReadout |-> value, frames |-> 0,
   elapsed |-> 0, fps |-> 0, shown |-> {}, download |-> NoDownload,
   urls |-> {}, reading |-> {}, handler |-> "startup", calls |-> <<>>,
   snapshot |-> <<>>, clean |-> FALSE, roundTrip |-> FALSE,
   keys |-> NoKeys, afterPause |-> FALSE, playedFrom |-> <<>>,
   stepsAtPlay |-> 0, epoch |-> 0, stale |-> FALSE,
   probe |-> [fn |-> "none"]]

\* draw(); pause();
startup(s) == pause(draw(s))

TickValues == {Digits(v) : v \in 1 .. MaxTicks}

\* every grid of the engine's size
AllGrids ==
  {Pack([i \in 0 .. (8 * ByteLen - 1) |-> IF i \in on THEN 1 ELSE 0], ByteLen) : on \in SUBSET CellIndices}

InitFrom(grids) ==
  \E seed \in grids, value \in {Digits(1)} :
    \E s \in {startup(Boot(seed, value))} :
        /\ cells = s.cells
        /\ initial = s.initial
        /\ heap = s.heap
        /\ animationId = s.animationId
        /\ pending = s.pending
        /\ buttonText = s.buttonText
        /\ ticksValue = s.ticksValue
        /\ ticksReadout = s.ticksReadout
        /\ frames = s.frames
        /\ elapsed = s.elapsed
        /\ fps = s.fps
        /\ shown = s.shown
        /\ download = s.download
        /\ urls = s.urls
        /\ reading = s.reading
        /\ handler = s.handler
        /\ calls = s.calls
        /\ snapshot = s.snapshot
        /\ clean = s.clean
        /\ roundTrip = s.roundTrip
        /\ keys = s.keys
        /\ afterPause = s.afterPause
        /\ playedFrom = s.playedFrom
        /\ stepsAtPlay = s.stepsAtPlay
        /\ epoch = s.epoch
        /\ stale = s.stale
        /\ probe = s.probe

\* the engine seeds its first grid itself
Init == InitFrom(Seeds)

\* the first grid is any grid
InitAnyGrid == InitFrom(AllGrids)

(* ------------------------------------------------------------------ *)
(* Events: one action per handler, its inputs drawn from the given sets *)
(* ------------------------------------------------------------------ *)
PlayPauseClickIn(shiftKeys, dts) ==
  \E shiftKey \in shiftKeys, dt \in dts :
    Commit(playPauseClick(BeginWith(State, "playPause",
                                    [NoKeys EXCEPT !.shiftKey = shiftKey]),
                          shiftKey, dt))

PlayPauseClickWith(shiftKeys) == PlayPauseClickIn(shiftKeys, Dts)

PlayPauseClick == PlayPauseClickWith(BOOLEAN)

\* the modifier-qualified click alone
ShiftPlayPauseClick == PlayPauseClickWith({TRUE})

\* the host delivers a pending frame request
AnimationFrameIn(dts) ==
  \E id \in pending, dt \in dts :
    Commit(renderLoop(Begin([State EXCEPT !.pending = @ \ {id}], "frame"), dt))

AnimationFrame == AnimationFrameIn(Dts)

TicksInput ==
  \E value \in TickValues :
    /\ value # ticksValue
    /\ Commit(ticksInput(Begin(State, "ticksInput"), value))

AllKeys == [ctrlKey : BOOLEAN, metaKey : BOOLEAN, shiftKey : BOOLEAN]

\* no modifier, the primary modifier, the primary modifier and shift
SomeKeys ==
  {NoKeys, [NoKeys EXCEPT !.ctrlKey = TRUE],
   [NoKeys EXCEPT !.ctrlKey = TRUE, !.shiftKey = TRUE]}

CanvasClickAt(Clicks, heldKeys) ==
  \E rect \in Rects :
    \E at \in Clicks[rect], held \in heldKeys :
      Commit(canvasClick(BeginWith(State, "canvasClick", held),
                         [clientX |-> at.clientX, clientY |-> at.clientY,
                          ctrlKey |-> held.ctrlKey, metaKey |-> held.metaKey,
                          shiftKey |-> held.shiftKey],
                         rect))

CanvasClick == CanvasClickAt([rect \in Rects |-> UserClicks(rect)], AllKeys)

\* clicks with no modifier held
PlainClick == CanvasClickAt([rect \in Rects |-> UserClicks(rect)], {NoKeys})

\* clicks on the first pixel alone
CornerClick == CanvasClickAt([rect \in Rects |-> {FirstPixel(rect)}], SomeKeys)

RandomiseClick ==
  \E seed \in Seeds : Commit(randomise(Begin(State, "randomiseClick"), seed))

KeyDown ==
  \E key \in Keys, seed \in Seeds :
    Commit(keydown(Begin(State, "keydown"), key, seed))

ClearClick == Commit(clearClick(Begin(State, "clearClick")))

SaveCurrent ==
  /\ Cardinality(urls) < MaxUrls
  /\ Commit(saveCurrentClick(Begin(State, "saveCurrent")))

SaveInitial ==
  /\ Cardinality(urls) < MaxUrls
  /\ Commit(saveInitialClick(Begin(State, "saveInitial")))

RevokeTimer ==
  \E url \in urls : Commit(revokeTimer(Begin(State, "revokeTimer"), url))

LoadChangeOf(files) ==
  /\ Cardinality(reading) < MaxReads
  /\ \E file \in files : Commit(loadChange(Begin(State, "loadChange"), file))

\* the user picks a file of the expected length
LoadChangeExact == LoadChangeOf(ExactFiles)

\* the user picks any file
LoadChange == LoadChangeOf(Files)

\* the user picks the file last downloaded
LoadChangeDownloaded == download.has /\ LoadChangeOf({Exported(State)})

\* a read completes; set_state may fail only on a length it does not expect
LoadEnd ==
  /\ Cardinality(heap) < MaxRegions
  /\ \E data \in reading, trap \in BOOLEAN, fill \in FillBytes :
       /\ trap => Len(data) # ByteLen
       /\ Commit(loadEnd(Begin([State EXCEPT !.reading = @ \ {data}], "loadEnd"),
                         data, trap, fill))

\* the scheduler among the other events: plain clicks, keys, the buttons
\* and imports of well-formed files
Next ==
  \/ PlayPauseClick
  \/ AnimationFrame
  \/ TicksInput
  \/ PlainClick
  \/ RandomiseClick
  \/ KeyDown
  \/ ClearClick
  \/ LoadChangeExact
  \/ LoadEnd

Spec == Init /\ [][Next]_vars

\* the router: clicks with every modifier combination, keys, the buttons
NextRouter ==
  \/ CanvasClick
  \/ RandomiseClick
  \/ KeyDown
  \/ ClearClick
  \/ ShiftPlayPauseClick

SpecRouter == Init /\ [][NextRouter]_vars

\* export, among the engine calls that change the grid
NextExport ==
  \/ SaveCurrent
  \/ SaveInitial
  \/ RevokeTimer
  \/ LoadChangeExact
  \/ LoadEnd
  \/ ShiftPlayPauseClick
  \/ CornerClick
  \/ RandomiseClick
  \/ ClearClick

SpecExport == Init /\ [][NextExport]_vars

\* export, and import of what was exported, from any grid
NextRoundTrip ==
  \/ SaveCurrent
  \/ SaveInitial
  \/ RevokeTimer
  \/ LoadChangeDownloaded
  \/ LoadEnd
  \/ ClearClick

SpecRoundTrip == InitAnyGrid /\ [][NextRoundTrip]_vars

\* imports of files of any length
NextImport ==
  \/ LoadChange
  \/ LoadEnd
  \/ CornerClick
  \/ RandomiseClick
  \/ ClearClick

SpecImport == Init /\ [][NextImport]_vars

\* the pointer-to-cell mapping alone, over positions on and off the canvas
Margin == 3

ProbeRects ==
  {[left |-> 8, top |-> 8, width |-> k * CanvasWidth, height |-> k * CanvasHeight] :
     k \in {1, 2}}

MapPointer ==
  /\ probe.fn = "none"
  /\ \E rect \in ProbeRects :
       \E x \in (rect.left - Margin) .. (rect.left + rect.width - 1 + Margin),
          y \in (rect.top - Margin) .. (rect.top + rect.height - 1 + Margin) :
         LET at == [clientX |-> x, clientY |-> y]
         IN  probe' = [fn |-> "cellOf", event |-> at, rect |-> rect,
                       row |-> clickRow(at, rect), col |-> clickCol(at, rect)]
  /\ UNCHANGED <<cells, initial, heap, animationId, pending, buttonText,
                 ticksValue, ticksReadout, frames, elapsed, fps, shown,
                 download, urls, reading, handler, calls, snapshot, clean,
                 roundTrip, keys, afterPause, playedFrom, stepsAtPlay,
                 epoch, stale>>

NextPointer == MapPointer

SpecPointer == Init /\ [][NextPointer]_vars

\* the scheduler with frames on both sides of the frame-rate window: a
\* frame FastFrame ms after the clock was last read, or SlowFrame ms after
FastFrame == 500

AllDts == {FastFrame, SlowFrame}

PlayPauseClickAny == PlayPauseClickIn(BOOLEAN, AllDts)

AnimationFrameAny == AnimationFrameIn(AllDts)

NextFrames ==
  \/ PlayPauseClickAny
  \/ AnimationFrameAny
  \/ TicksInput
  \/ PlainClick
  \/ KeyDown
  \/ ClearClick

SpecFrames == Init /\ [][NextFrames]_vars

\* the scheduler alone, under a host that delivers every frame request
\* that stays pending
NextLoop ==
  \/ PlayPauseClickAny
  \/ AnimationFrameAny
  \/ TicksInput

SpecLoop == Init /\ [][NextLoop]_vars /\ WF_vars(AnimationFrameAny)

\* every handler that changes the grid: the scheduler, clicks with and
\* without modifiers, keys, the buttons, and imports of files of any length
NextDisplay ==
  \/ PlayPauseClick
  \/ AnimationFrame
  \/ CornerClick
  \/ RandomiseClick
  \/ KeyDown
  \/ ClearClick
  \/ LoadChange
  \/ LoadEnd

SpecDisplay == Init /\ [][NextDisplay]_vars

\* editing, one export and loading, while paused and while playing
PlainPlayPauseClick == PlayPauseClickWith({FALSE})

NextEdit ==
  \/ PlainPlayPauseClick
  \/ CornerClick
  \/ RandomiseClick
  \/ KeyDown
  \/ ClearClick
  \/ SaveCurrent
  \/ SaveInitial
  \/ LoadChangeExact
  \/ LoadEnd

SpecEdit == Init /\ [][NextEdit]_vars

\* every variable but probe
driverVars ==
  <<cells, initial, heap, animationId, pending, buttonText, ticksValue,
    ticksReadout, frames, elapsed, fps, shown, download, urls, reading,
    handler, calls, snapshot, clean, roundTrip, keys, afterPause,
    playedFrom, stepsAtPlay, epoch, stale>>

\* the bit decoder alone, over grids of every size up to ProbeWidth x
\* ProbeHeight
ProbeWidth == 5

ProbeHeight == 4

\* the packed grid of n bytes in which only the bit of index is set
OneHot(index, n) ==
  [k \in 1 .. n |-> IF k - 1 = index \div 8 THEN Shl1(index % 8) ELSE 0]

DecodeBit ==
  /\ probe.fn = "none"
  /\ \E w \in 1 .. ProbeWidth, h \in 1 .. ProbeHeight :
       \E index \in 0 .. (w * h - 1), n \in 0 .. (w * h - 1) :
         LET arr == OneHot(index, CeilDiv8(w * h))
         IN  probe' = [fn |-> "bitIsSet", width |-> w, height |-> h,
                       index |-> index, n |-> n, arr |-> arr,
                       out |-> bitIsSet(n, arr)]
  /\ UNCHANGED driverVars

NextCodec == DecodeBit

SpecCodec == Init /\ [][NextCodec]_vars

\* ctx.fillRect(x, y, w, h) of drawCells for the cell at (row, col)
cellRect(row, col) ==
  [x |-> col * (CELL_SIZE + 1) + 1, y |-> row * (CELL_SIZE + 1) + 1,
   w |-> CELL_SIZE, h |-> CELL_SIZE]

\* the canvas displayed at its own size
ScaleOneRect ==
  [left |-> 8, top |-> 8, width |-> CanvasWidth, height |-> CanvasHeight]

\* a click on a pixel that drawCells fills for a cell
MapFilledPixel ==
  /\ probe.fn = "none"
  /\ \E row \in 0 .. (Height - 1), col \in 0 .. (Width - 1) :
       LET filled == cellRect(row, col)
       IN  \E px \in filled.x .. (filled.x + filled.w - 1),
              py \in filled.y .. (filled.y + filled.h - 1) :
             LET at == [clientX |-> ScaleOneRect.left + px,
                        clientY |-> ScaleOneRect.top + py]
             IN  probe' = [fn |-> "fillRect", cell |-> <<row, col>>,
                           pixel |-> <<px, py>>, filled |-> filled,
                           row |-> clickRow(at, ScaleOneRect),
                           col |-> clickCol(at, ScaleOneRect)]
  /\ UNCHANGED driverVars

NextPixels == MapFilledPixel

SpecPixels == Init /\ [][NextPixels]_vars

(* ------------------------------------------------------------------ *)
(* Properties                                                           *)
(* ------------------------------------------------------------------ *)
\* the cells alive in a packed grid, read the engine's way
Alive(bytes) ==
  {<<row, col>> \in (0 .. (Height - 1)) \X (0 .. (Width - 1)) :
     CellBit(bytes, row * Width + col) = 1}

\* the state is the one a pause() leaves when it directly follows a play()
PlayThenPause == playedFrom # <<>> /\ handler = "playPause" /\ animationId = Null

C2_NoTickAfterPause == handler = "frame" => ~afterPause

\* a pause() that cancelled a request the host was holding
C2_Witness ==
  /\ afterPause
  /\ handler = "playPause"
  /\ Len(calls) = 1
  /\ calls[1].op = "cancelAnimationFrame"
  /\ calls[1].a # Null
  /\ pending = {}

\* C3: between handlers the scheduler holds a handle, and of a pending
\* request, if and only if the button shows that pause is available; after
\* startup it holds none and the button shows play.
C3_HandleIffPlaying ==
  /\ (animationId # Null) <=> (buttonText = PAUSE_GLYPH)
  /\ animationId # Null => animationId \in pending
  /\ handler = "startup" =>
       animationId = Null /\ buttonText = PLAY_GLYPH /\ pending = {}

C3_Witness ==
  /\ animationId # Null
  /\ buttonText = PAUSE_GLYPH
  /\ handler = "frame"

\* C4: a shift-click on the play/pause control while paused advances the
\* automaton by the step count, redraws, and leaves the state paused with
\* no frame requested; while playing it advances nothing and pauses.
C4_ShiftClick ==
  (handler' = "playPause" /\ keys'.shiftKey) =>
    IF animationId = Null
    THEN /\ cells' = TickMany(cells, ParseInt(ticksValue))
         /\ calls' = <<Call("tick_many", ParseInt(ticksValue), 0), Call("draw", 0, 0)>>
         /\ shown' = Alive(cells')
         /\ animationId' = Null
         /\ pending' = pending
         /\ buttonText' = buttonText
    ELSE /\ cells' = cells
         /\ calls' = <<Call("cancelAnimationFrame", animationId, 0)>>
         /\ animationId' = Null
         /\ pending' = pending \ {animationId}
         /\ buttonText' = PLAY_GLYPH

C4_StepOnce == [][C4_ShiftClick]_vars

\* a step of more than one generation, taken while paused
C4_Witness ==
  /\ handler = "playPause"
  /\ keys.shiftKey
  /\ animationId = Null
  /\ Len(calls) = 2
  /\ calls[1].op = "tick_many"
  /\ calls[1].a = MaxTicks
  /\ buttonText = PLAY_GLYPH

\* C5: importing the bytes just exported from the current grid leaves
\* every cell as it was before the export.
C5_RoundTrip ==
  roundTrip =>
    \A i \in CellIndices : bitIsSet(i, cells) <=> bitIsSet(i, snapshot)

C5_Witness ==
  /\ roundTrip
  /\ handler = "loadEnd"
  /\ \E i \in CellIndices : bitIsSet(i, cells)
  /\ \E i \in CellIndices : ~bitIsSet(i, cells)

\* C6: the pointer-to-cell mapping yields a row in [0, height-1] and a
\* column in [0, width-1] for every pointer position: the first pixel maps
\* to (0, 0), the last to (height-1, width-1), and a position before the
\* canvas clamps to row 0 or column 0.
C6_MappingBounded ==
  probe.fn = "cellOf" =>
    /\ probe.row \in 0 .. (Height - 1)
    /\ probe.col \in 0 .. (Width - 1)
    /\ probe.event = FirstPixel(probe.rect) => probe.row = 0 /\ probe.col = 0
    /\ probe.event = LastPixel(probe.rect) =>
         probe.row = Height - 1 /\ probe.col = Width - 1
    /\ probe.event.clientY < probe.rect.top => probe.row = 0
    /\ probe.event.clientX < probe.rect.left => probe.col = 0

\* C7: a canvas click makes exactly one engine call that changes the grid,
\* the pulsar with the primary modifier and shift, the glider with the
\* primary modifier alone, the toggle otherwise, and then draws once.
Mutators == {"add_pulsar", "add_glider", "toggle_cell"}

C7_OneMutation ==
  handler = "canvasClick" =>
    /\ Len(calls) = 2
    /\ calls[1].op =
         (IF (keys.ctrlKey \/ keys.metaKey) /\ keys.shiftKey THEN "add_pulsar"
          ELSE IF keys.ctrlKey \/ keys.metaKey THEN "add_glider"
          ELSE "toggle_cell")
    /\ Cardinality({k \in DOMAIN calls : calls[k].op \in Mutators}) = 1
    /\ calls[2].op = "draw"
    /\ shown = Alive(cells)

C7_Witness ==
  /\ handler = "canvasClick"
  /\ keys.metaKey /\ keys.shiftKey /\ ~keys.ctrlKey
  /\ calls[1].op = "add_pulsar"

\* C8: after the import completion handler ends, by returning or by
\* set_state failing, no scratch region it allocated is left unreleased.
C8_ScratchReleased == heap = {}

\* C9: for a file of any length n the import completion makes, in this
\* order and once each: malloc(n), the copy of the n bytes, set_state(ptr, n),
\* free(ptr, n), draw.
C9_ImportSequence ==
  handler = "loadEnd" =>
    /\ Len(calls) = 5
    /\ calls[1].op = "malloc"
    /\ calls[2] = Call("set", calls[1].b, calls[2].b)
    /\ Len(calls[2].b) = calls[1].a
    /\ calls[3] = Call("set_state", calls[1].b, calls[1].a)
    /\ calls[4] = Call("free", calls[1].b, calls[1].a)
    /\ calls[5] = Call("draw", 0, 0)

\* C10: what was exported, from the grid or from the initial configuration,
\* is ceil(width*height/8) bytes, the engine's at the moment of the export,
\* and stays so whatever the engine is asked to do afterwards.
C10_ExportIndependent ==
  download.has =>
    /\ Exported(State) = snapshot
    /\ Len(Exported(State)) = CeilDiv8(Width * Height)

\* the grid has changed since it was exported
C10_Witness ==
  /\ download.has
  /\ download.source = CellsPtr(State)
  /\ handler \notin {"saveCurrent", "saveInitial", "revokeTimer"}
  /\ cells # snapshot
  /\ Exported(State) = snapshot

\* C11: of a packed grid in which only the bit of one index is set, the
\* decoder returns true for that index and false for every other index of
\* the grid, whatever the grid's width and height.
C11_OneHotDecodes ==
  probe.fn = "bitIsSet" => (probe.out <=> probe.n = probe.index)

\* a bit found past the first byte
C11_Witness ==
  /\ probe.fn = "bitIsSet"
  /\ probe.out
  /\ probe.index >= 8
  /\ probe.width * probe.height > 16

\* the operations of calls, in order
Ops(log) == [k \in DOMAIN log |-> log[k].op]

\* no tick is half applied: what is displayed is the grid, and a handle held
\* is the one request pending
Settled ==
  /\ shown = Alive(cells)
  /\ animationId # Null => pending = {animationId}

\* C12: a render-loop invocation does the frame-rate accounting, the advance,
\* the redraw and the request of the next frame, in that order and in one
\* step; every handler starts from a state in which the last tick is
\* complete.
C12_Tick ==
  /\ Settled
  /\ handler' = "frame" =>
       /\ Ops(calls') \in
            {<<"Date.now", "tick_many", "draw", "requestAnimationFrame">>,
             <<"Date.now", "innerText", "Date.now", "tick_many", "draw",
               "requestAnimationFrame">>}
       /\ Len(calls') = 4 <=> frames' = frames + 1
       /\ Len(calls') = 6 <=> (fps' = frames /\ frames' = 0)
       /\ cells' = TickMany(cells, ParseInt(ticksValue))
       /\ shown' = Alive(cells')
       /\ animationId' = calls'[Len(calls')].a
       /\ pending' = {animationId'}

C12_TickIsOneUnit == [][C12_Tick]_vars

\* a tick that published the rate, after a handler that was not a tick
C12_Witness ==
  /\ handler = "frame"
  /\ Len(calls) = 6
  /\ calls[2] = Call("innerText", fps, 0)
  /\ fps > 0
  /\ pending = {animationId}

\* C13: every render-loop invocation and every step-once advances by the
\* value the steps-per-frame control has then, not by the one it had when
\* play() ran.
C13_Step ==
  (handler' = "frame" \/ (handler' = "playPause" /\ animationId = Null)) =>
    /\ cells' = TickMany(cells, ParseInt(ticksValue))
    /\ \E k \in DOMAIN calls' :
         calls'[k] = Call("tick_many", ParseInt(ticksValue), 0)
    /\ Cardinality({k \in DOMAIN calls' : calls'[k].op = "tick_many"}) = 1

C13_StepCountReadFresh == [][C13_Step]_vars

\* a frame that advanced by a value set after play() ran
C13_Witness ==
  /\ handler = "frame"
  /\ stepsAtPlay # 0
  /\ ParseInt(ticksValue) # stepsAtPlay
  /\ \E k \in DOMAIN calls : calls[k] = Call("tick_many", ParseInt(ticksValue), 0)

\* C14: every render-loop invocation increments the frame counter; once
\* 1000 ms or more have passed since the window started, the incremented
\* counter is published and the counter and the window start are reset.
C14_Sample ==
  (handler' \in {"frame", "playPause"} /\ calls' # <<>>
   /\ calls'[1].op = "Date.now") =>
    IF calls'[1].a >= Window
    THEN fps' = frames + 1 /\ frames' = 0 /\ elapsed' = 0
    ELSE frames' = frames + 1 /\ fps' = fps

C14_CountsEveryFrame == [][C14_Sample]_vars

\* C17: if from some point on the state is Playing for ever (pause() is not
\* invoked again) and the host delivers the requests that stay pending, the
\* render loop runs, and advances the automaton, infinitely often.
C17_LoopKeepsRunning ==
  <>[](buttonText = PAUSE_GLYPH) => []<>(handler = "frame")

\* a tick requested by a tick that a tick requested
C17_Witness ==
  /\ handler = "frame"
  /\ buttonText = PAUSE_GLYPH
  /\ frames = 2
  /\ animationId \in pending

\* C18: at most one frame request is pending at any time, and it is the one
\* whose handle the scheduler holds.
C18_OneLoop ==
  /\ Cardinality(pending) <= 1
  /\ pending \subseteq {animationId}
  /\ Null \notin pending

\* the second request, pending alone once the first was delivered
C18_Witness ==
  /\ handler = "frame"
  /\ animationId = 2
  /\ pending = {2}
  /\ Cardinality({k \in DOMAIN calls : calls[k].op = "requestAnimationFrame"}) = 1

\* C15: no view of engine memory is used after an engine call made since
\* the view was created, in redraw, export or import, and the file offered
\* for download is not such a view.
C15_NoStaleView == ~stale /\ ~download.alias

\* an import: the view was created after malloc and used before set_state
C15_Witness ==
  /\ handler = "loadEnd"
  /\ Len(calls) = 5
  /\ Ops(calls) = <<"malloc", "set", "set_state", "free", "draw">>
  /\ epoch = 4
  /\ download.has
  /\ ~stale

\* the engine calls that change the grid
GridOps ==
  {"tick_many", "toggle_cell", "add_glider", "add_pulsar", "randomise", "clear",
   "set_state"}

\* call k of the handler changed the grid: a set_state that failed, the
\* handler's last call then, did not
ChangedGrid(k) ==
  /\ calls[k].op \in GridOps
  /\ ~(calls[k].op = "set_state" /\ k = Len(calls))

EditHandlers ==
  {"canvasClick", "randomiseClick", "keydown", "clearClick", "saveCurrent",
   "saveInitial", "loadChange", "loadEnd"}

SchedulerOps == {"tick_many", "requestAnimationFrame", "cancelAnimationFrame"}

\* C19: a canvas click, a randomise by button or key, a clear, an export or
\* an import leaves the handle, the pending request and the play/pause
\* button as they were, and advances nothing.
C19_Edit ==
  handler' \in EditHandlers =>
    /\ animationId' = animationId
    /\ pending' = pending
    /\ buttonText' = buttonText
    /\ \A k \in DOMAIN calls' : calls'[k].op \notin SchedulerOps

C19_EditsKeepPlayback == [][C19_Edit]_vars

\* a file loaded while playing
C19_Witness ==
  /\ handler = "loadEnd"
  /\ buttonText = PAUSE_GLYPH
  /\ animationId # Null
  /\ pending = {animationId}
  /\ calls[Len(calls)].op = "draw"

\* C20: at scale 1, a click on any pixel of the rectangle drawCells fills
\* for the cell (row, col) is mapped to (row, col).
C20_ClickInvertsDraw ==
  probe.fn = "fillRect" => <<probe.row, probe.col>> = probe.cell

\* the last pixel of the last cell
C20_Witness ==
  /\ probe.fn = "fillRect"
  /\ probe.cell = <<Height - 1, Width - 1>>
  /\ probe.pixel = <<probe.filled.x + CELL_SIZE - 1, probe.filled.y + CELL_SIZE - 1>>
  /\ probe.row = Height - 1
  /\ probe.col = Width - 1

====
